---- MODULE Spec2Model ----
(***************************************************************************)
(* Reconcilers of src/plugins/resources.py (inmanta std module):           *)
(*   - PosixFileProvider   (CRUD, std::File)                               *)
(* Each reconciler is a component with its own variables and its own       *)
(* specification; the variables of the other components stay idle.         *)
(***************************************************************************)
EXTENDS Integers, Sequences, FiniteSets, TLC

VARIABLES
    fNode,       \* std::File: what the host holds at resource.path
    store,       \* content store: hash -> bytes, or NoObj
    fDesired,    \* std::File: the desired Resource Descriptor
    fPc,         \* std::File: position of the reconciliation pass
    fCur,        \* std::File: the clone read_resource fills in
    fErr,        \* std::File: the exception that ended the pass, or "none"
    fOutcome,    \* std::File: what ctx.set_created/updated/purged recorded
    fLog,        \* std::File: the _io calls issued by the pass, in order
    fOp,         \* std::File: the handler the pass dispatched to
    fQuiet,      \* std::File: nothing else touched the path since the pass
                 \*            started (history)
    fConverged   \* std::File: create/update returned without error in a
                 \*            quiet pass and nothing touched the path since
                 \*            (history)

VARIABLES
    lNode,       \* std::Symlink: what the host holds at resource.target
    lDesired,    \* std::Symlink: the desired Resource Descriptor
    lPc,         \* std::Symlink: position of the reconciliation pass
    lCur,        \* std::Symlink: the clone read_resource fills in
    lErr,        \* std::Symlink: the exception that ended the pass, or "none"
    lOutcome,    \* std::Symlink: what ctx.set_created/updated/purged recorded
    lLog,        \* std::Symlink: the _io calls issued by the pass, in order
    lOp          \* std::Symlink: the handler the pass dispatched to

VARIABLES
    remote,      \* std::AgentConfig: the autostart agent map held by the server
    aDesired,    \* std::AgentConfig: per reconciliation, the desired descriptor
    aPc,         \* std::AgentConfig: per reconciliation, its position
    aCtx,        \* std::AgentConfig: per reconciliation, the dict under ctx "map"
    aCur,        \* std::AgentConfig: per reconciliation, the clone read fills in
    aErr,        \* std::AgentConfig: per reconciliation, the exception or "none"
    aOutcome,    \* std::AgentConfig: per reconciliation, the recorded outcome
    aOp,         \* std::AgentConfig: per reconciliation, the handler dispatched
    aDirty,      \* std::AgentConfig: somebody else wrote the map since this
                 \*                   reconciliation read it (history)
    aStale,      \* std::AgentConfig: the last write of this reconciliation
                 \*                   was made while dirty (history)
    aLast        \* std::AgentConfig: who wrote the map last (history)

VARIABLES
    bins,        \* std::Service: the binaries present on the host
    sysPath,     \* SystemdService._systemd_path
    sysAvail,    \* SystemdService: what the last available() returned
    svcAvail,    \* ServiceService: what the last available() returned
    sysFresh,    \* SystemdService: no host change since that probe (history)
    svcFresh     \* ServiceService: no host change since that probe (history)

VARIABLES
    asmList,     \* Content Assembler: content_list, in the order supplied
    asmSep,      \* Content Assembler: the configured separator
    asmOut,      \* Content Assembler: what generate_content returned last
    asmRef       \* Content Assembler: what it returned first for this
                 \*                    fragment set (history)

VARIABLES
    pkInfo,      \* std::Package: the lines of the info query's output
    pkUpd,       \* std::Package: the first line of the check-update output
    pkPc,        \* std::Package: before or after check_resource
    pkFields,    \* std::Package: what _parse_fields left in check_resource
    pkData       \* std::Package: what check_resource returned or raised

VARIABLES
    sfObj,    \* store_file: the std::File entity being exported
    sfOut    \* store_file: what the last call assembled

VARIABLES
    dNode,    \* std::Directory: what the host has at resource.path
    dDesired,    \* std::Directory: the desired descriptor
    dPc,    \* std::Directory: position of the reconciliation pass
    dCur,    \* std::Directory: the clone read_resource filled
    dErr,    \* std::Directory: the exception that ended the pass
    dOutcome,    \* std::Directory: the outcome recorded on ctx
    dLog,    \* std::Directory: the _io calls of the handler
    dOp    \* std::Directory: the handler the pass called

VARIABLES
    saProv,    \* std::Service: the reconciler whose do_changes runs
    saChanges,    \* std::Service: the change-set handed to do_changes
    saResults,    \* std::Service: what each command of this attempt returns
    saOut    \* std::Service: the commands, exception and outcome of do_changes

VARIABLES
    plDesired,    \* std::Package: resource.state
    plInfo,    \* std::Package: the lines of the info output of this attempt
    plUpd,    \* std::Package: the first check-update line of this attempt
    plPc,    \* std::Package: position of the deployment
    plState,    \* std::Package: what check_resource returned in list_changes
    plChanges,    \* std::Package: what list_changes returned
    plOut,    \* std::Package: the commands, exception and outcome of do_changes
    plCodes    \* std::Package: the exit codes the package tool gave do_changes

fileVars == <<fNode, store, fDesired, fPc, fCur, fErr, fOutcome, fLog, fOp, fQuiet, fConverged>>
linkVars == <<lNode, lDesired, lPc, lCur, lErr, lOutcome, lLog, lOp>>
agentVars == <<remote, aDesired, aPc, aCtx, aCur, aErr, aOutcome, aOp, aDirty, aStale, aLast>>

svcVars == <<bins, sysPath, sysAvail, svcAvail, sysFresh, svcFresh>>
asmVars == <<asmList, asmSep, asmOut, asmRef>>
pkgVars == <<pkInfo, pkUpd, pkPc, pkFields, pkData>>
storeVars == <<sfObj, sfOut>>
dirVars == <<dNode, dDesired, dPc, dCur, dErr, dOutcome, dLog, dOp>>
applyVars == <<saProv, saChanges, saResults, saOut>>
planVars == <<plDesired, plInfo, plUpd, plPc, plState, plChanges, plOut, plCodes>>

vars == <<fileVars, linkVars, agentVars, svcVars, asmVars, pkgVars, storeVars, dirVars, applyVars, planVars>>

\* what a step of one component leaves alone
FileFrame == UNCHANGED <<linkVars, agentVars, svcVars, asmVars, pkgVars, storeVars, dirVars, applyVars, planVars>>
LinkFrame == UNCHANGED <<fileVars, agentVars, svcVars, asmVars, pkgVars, storeVars, dirVars, applyVars, planVars>>
AgentFrame == UNCHANGED <<fileVars, linkVars, svcVars, asmVars, pkgVars, storeVars, dirVars, applyVars, planVars>>
SvcFrame == UNCHANGED <<fileVars, linkVars, agentVars, asmVars, pkgVars, storeVars, dirVars, applyVars, planVars>>
AsmFrame == UNCHANGED <<fileVars, linkVars, agentVars, svcVars, pkgVars, storeVars, dirVars, applyVars, planVars>>
PkgFrame == UNCHANGED <<fileVars, linkVars, agentVars, svcVars, asmVars, storeVars, dirVars, applyVars, planVars>>
StoreFrame == UNCHANGED <<fileVars, linkVars, agentVars, svcVars, asmVars, pkgVars, dirVars, applyVars, planVars>>
DirFrame == UNCHANGED <<fileVars, linkVars, agentVars, svcVars, asmVars, pkgVars, storeVars, applyVars, planVars>>
ApplyFrame == UNCHANGED <<fileVars, linkVars, agentVars, svcVars, asmVars, pkgVars, storeVars, dirVars, planVars>>
PlanFrame == UNCHANGED <<fileVars, linkVars, agentVars, svcVars, asmVars, pkgVars, storeVars, dirVars, applyVars>>

None == "None"
NoObj == "NoObj"

(***************************************************************************)
(* Small helpers                                                           *)
(***************************************************************************)
Char(s, i) == SubSeq(s, i, i)

OctalDigits == {"0", "1", "2", "3", "4", "5", "6", "7"}

DigitValue(c) ==
    CASE c = "0" -> 0 [] c = "1" -> 1 [] c = "2" -> 2 [] c = "3" -> 3
      [] c = "4" -> 4 [] c = "5" -> 5 [] c = "6" -> 6 [] c = "7" -> 7

\* int(s, 8) is defined (raises no ValueError) exactly on octal digit strings
IsOctal(s) == Len(s) > 0 /\ \A i \in 1..Len(s) : Char(s, i) \in OctalDigits

RECURSIVE ParseOctal(_)
ParseOctal(s) ==
    IF Len(s) = 0 THEN 0
    ELSE 8 * ParseOctal(SubSeq(s, 1, Len(s) - 1)) + DigitValue(Char(s, Len(s)))

\* int(oct(st_mode)[-4:]): the last four octal digits read as a decimal number
StatPermissions(mode) ==
    ((mode \div 512) % 8) * 1000 + ((mode \div 64) % 8) * 100
        + ((mode \div 8) % 8) * 10 + (mode % 8)

(***************************************************************************)
(* hash_file: SHA-1 of the content, an injective tagging of the few        *)
(* contents of the model                                                   *)
(***************************************************************************)
Contents == {"alpha", "beta"}

hash_file(content) == "sha1(" \o content \o ")"

Hashes == {hash_file(c) : c \in Contents}

(***************************************************************************)
(* The host filesystem at one path and the _io primitives on it            *)
(***************************************************************************)
Users == {"root", "app"}
Groups == {"root", "staff"}
FilePerms == {644, 755, 648}

Absent == [kind |-> "absent"]

\* the mode bits a fresh open(path, "wb+") leaves under umask 022
UmaskMode == ParseOctal("644")

HostModes == {ParseOctal(ToString(p)) : p \in {q \in FilePerms : IsOctal(ToString(q))}}

FileNodes ==
    {Absent} \cup
    [kind : {"file"}, data : Contents, mode : HostModes, owner : Users, group : Groups]

file_exists(node) == node.kind # "absent"

io_hash_file(node) == hash_file(node.data)

read_binary(node) == node.data

file_stat(node) ==
    [owner |-> node.owner, group |-> node.group,
     permissions |-> StatPermissions(node.mode)]

put(node, data) ==
    IF file_exists(node) THEN [node EXCEPT !.data = data]
    ELSE [kind |-> "file", data |-> data, mode |-> UmaskMode,
          owner |-> "root", group |-> "root"]

chmod(node, permissions) == [node EXCEPT !.mode = ParseOctal(permissions)]

chown(node, owner, group) == [node EXCEPT !.owner = owner, !.group = group]

Call(name, arg) == [call |-> name, arg |-> arg]

(***************************************************************************)
(* std::File descriptors and the change-set of the CRUD protocol           *)
(***************************************************************************)
FileDescriptors ==
    [hash : Hashes, permissions : FilePerms, owner : Users, group : Groups,
     purged : BOOLEAN]

FileFields == {"hash", "permissions", "owner", "group"}

Unread == [st |-> "unread"]
Purged == [st |-> "purged"]

\* the attributes of the clone that differ from the desired ones
FileChanges(cur, d) == {f \in FileFields : cur[f] # d[f]}

Result(node, log, err, outcome) ==
    [node |-> node, log |-> log, err |-> err, outcome |-> outcome]

(***************************************************************************)
(* PosixFileProvider                                                       *)
(***************************************************************************)
IntegrityOkAlways(data, hash) == TRUE

\* hash_file(data) != resource.hash raises
IntegrityOk(data, hash) == hash_file(data) = hash

NeedsChownOwnerOnly(changes) == "owner" \in changes

NeedsChownAlways(changes) == TRUE

\* "owner" in changes or "group" in changes
NeedsChown(changes) == "owner" \in changes \/ "group" \in changes

\* create_resource without its existence check
PosixFile_create_overwrite(node, st, d) ==
    IF st[d.hash] = NoObj THEN Result(node, <<>>, "fetch", "none")
    ELSE IF ~IntegrityOk(st[d.hash], d.hash)
         THEN Result(node, <<>>, "integrity", "none")
    ELSE LET data == st[d.hash]
             perm == ToString(d.permissions)
             n1   == put(node, data)
         IN  IF ~IsOctal(perm)
             THEN Result(n1, <<Call("put", data), Call("chmod", perm)>>, "chmod", "none")
             ELSE Result(chown(chmod(n1, perm), d.owner, d.group),
                         <<Call("put", data), Call("chmod", perm),
                           Call("chown", <<d.owner, d.group>>)>>,
                         "none", "created")

PosixFile_create_resource(node, st, d) ==
    IF file_exists(node) THEN Result(node, <<>>, "exists", "none")
    ELSE IF st[d.hash] = NoObj THEN Result(node, <<>>, "fetch", "none")
    ELSE IF ~IntegrityOk(st[d.hash], d.hash)
         THEN Result(node, <<>>, "integrity", "none")
    ELSE LET data == st[d.hash]
             perm == ToString(d.permissions)
             n1   == put(node, data)
         IN  IF ~IsOctal(perm)
             THEN Result(n1, <<Call("put", data), Call("chmod", perm)>>, "chmod", "none")
             ELSE Result(chown(chmod(n1, perm), d.owner, d.group),
                         <<Call("put", data), Call("chmod", perm),
                           Call("chown", <<d.owner, d.group>>)>>,
                         "none", "created")

PosixFile_delete_resource(node) ==
    IF file_exists(node)
    THEN Result(Absent, <<Call("remove", "path")>>, "none", "purged")
    ELSE Result(node, <<>>, "none", "none")

PosixFile_update_resource(node, st, changes, d) ==
    IF ~file_exists(node) THEN Result(node, <<>>, "missing", "none")
    ELSE IF "hash" \in changes /\ st[d.hash] = NoObj
         THEN Result(node, <<>>, "fetch", "none")
    ELSE IF "hash" \in changes /\ ~IntegrityOk(st[d.hash], d.hash)
         THEN Result(node, <<>>, "integrity", "none")
    ELSE LET perm == ToString(d.permissions)
             n1   == IF "hash" \in changes THEN put(node, st[d.hash]) ELSE node
             l1   == IF "hash" \in changes
                     THEN <<Call("put", st[d.hash])>> ELSE <<>>
         IN  IF "permissions" \in changes /\ ~IsOctal(perm)
             THEN Result(n1, Append(l1, Call("chmod", perm)), "chmod", "none")
             ELSE LET n2 == IF "permissions" \in changes
                            THEN chmod(n1, perm) ELSE n1
                      l2 == IF "permissions" \in changes
                            THEN Append(l1, Call("chmod", perm)) ELSE l1
                      n3 == IF NeedsChown(changes)
                            THEN chown(n2, d.owner, d.group) ELSE n2
                      l3 == IF NeedsChown(changes)
                            THEN Append(l2, Call("chown", <<d.owner, d.group>>))
                            ELSE l2
                  IN  Result(n3, l3, "none", "updated")

(***************************************************************************)
(* The reconciliation pass over std::File                                  *)
(***************************************************************************)
FileStart ==
    /\ fPc \in {"idle", "done"}
    /\ fPc' = "start"
    /\ fCur' = Unread
    /\ fErr' = "none"
    /\ fOutcome' = "none"
    /\ fLog' = <<>>
    /\ fOp' = "none"
    /\ fQuiet' = TRUE
    /\ UNCHANGED <<fNode, store, fDesired, fConverged>>
    /\ FileFrame

\* read_resource, up to the hash of the path
FileReadHash ==
    /\ fPc = "start"
    /\ IF ~file_exists(fNode)
       THEN fCur' = Purged /\ fPc' = "read"
       ELSE fCur' = [st |-> "hashed", hash |-> io_hash_file(fNode)] /\ fPc' = "hashed"
    /\ UNCHANGED <<fNode, store, fDesired, fErr, fOutcome, fLog, fOp, fQuiet, fConverged>>
    /\ FileFrame

\* read_resource, from read_binary on: the backup upload and the stat
FileReadRest ==
    /\ fPc = "hashed"
    /\ IF ~file_exists(fNode)
       THEN /\ fErr' = "io"
            /\ fPc' = "done"
            /\ UNCHANGED <<store, fCur>>
       ELSE /\ store' = IF store[fCur.hash] = NoObj
                        THEN [store EXCEPT ![fCur.hash] = read_binary(fNode)]
                        ELSE store
            /\ fCur' = [st |-> "present", hash |-> fCur.hash,
                        owner |-> file_stat(fNode).owner,
                        group |-> file_stat(fNode).group,
                        permissions |-> file_stat(fNode).permissions]
            /\ fPc' = "read"
            /\ fErr' = fErr
    /\ UNCHANGED <<fNode, fDesired, fOutcome, fLog, fOp, fQuiet, fConverged>>
    /\ FileFrame

FileFinish(op, r) ==
    /\ fOp' = op
    /\ fNode' = r.node
    /\ fLog' = r.log
    /\ fErr' = r.err
    /\ fOutcome' = r.outcome
    /\ fPc' = "done"
    /\ fConverged' = (r.err = "none" /\ op \in {"create", "update"} /\ fQuiet)
    /\ fQuiet' = fQuiet
    /\ UNCHANGED <<store, fDesired, fCur>>
    /\ FileFrame

FileCreate ==
    /\ fPc = "read"
    /\ ~fDesired.purged
    /\ fCur = Purged
    /\ FileFinish("create", PosixFile_create_resource(fNode, store, fDesired))

FileDelete ==
    /\ fPc = "read"
    /\ fDesired.purged
    /\ fCur # Purged
    /\ FileFinish("delete", PosixFile_delete_resource(fNode))

FileUpdate ==
    /\ fPc = "read"
    /\ ~fDesired.purged
    /\ fCur # Purged
    /\ FileChanges(fCur, fDesired) # {}
    /\ FileFinish("update",
           PosixFile_update_resource(fNode, store, FileChanges(fCur, fDesired), fDesired))

\* an empty change-set: no handler is called
FileUnchanged ==
    /\ fPc = "read"
    /\ \/ fDesired.purged /\ fCur = Purged
       \/ ~fDesired.purged /\ fCur # Purged /\ FileChanges(fCur, fDesired) = {}
    /\ fPc' = "done"
    /\ UNCHANGED <<fNode, store, fDesired, fCur, fErr, fOutcome, fLog, fOp, fQuiet, fConverged>>
    /\ FileFrame

\* anything else on the host rewrites, removes or creates the path
FileHostChange ==
    /\ \E n \in FileNodes : n # fNode /\ fNode' = n
    /\ fConverged' = FALSE
    /\ fQuiet' = FALSE
    /\ UNCHANGED <<store, fDesired, fPc, fCur, fErr, fOutcome, fLog, fOp>>
    /\ FileFrame

FileInit ==
    /\ fNode \in FileNodes
    /\ store \in [Hashes -> {NoObj}] \cup {[h \in Hashes |-> CHOOSE c \in Contents : hash_file(c) = h]}
    /\ fDesired \in FileDescriptors
    /\ fPc = "idle"
    /\ fCur = Unread
    /\ fErr = "none"
    /\ fOutcome = "none"
    /\ fLog = <<>>
    /\ fOp = "none"
    /\ fQuiet = TRUE
    /\ fConverged = FALSE

\* the component when another one is under study
FileIdle ==
    /\ fNode = Absent
    /\ store = [h \in Hashes |-> NoObj]
    /\ fDesired = [hash |-> hash_file("alpha"), permissions |-> 644,
                   owner |-> "root", group |-> "root", purged |-> FALSE]
    /\ fPc = "idle"
    /\ fCur = Unread
    /\ fErr = "none"
    /\ fOutcome = "none"
    /\ fLog = <<>>
    /\ fOp = "none"
    /\ fQuiet = TRUE
    /\ fConverged = FALSE

FileNext ==
    \/ FileStart
    \/ FileReadHash
    \/ FileReadRest
    \/ FileCreate
    \/ FileDelete
    \/ FileUpdate
    \/ FileUnchanged
    \/ FileHostChange

(***************************************************************************)
(* SymlinkProvider: the target path and the _io primitives on it           *)
(***************************************************************************)
Sources == {"/opt/a", "/opt/b"}

LinkNodes ==
    {Absent} \cup [kind : {"file"}, data : Contents]
             \cup [kind : {"link"}, source : Sources]

LinkDescriptors == [source : Sources, purged : BOOLEAN]

is_symlink(node) == node.kind = "link"

readlink(node) == node.source

ReadResult(err, cur) == [err |-> err, cur |-> cur]

Symlink_read_resource_purged(node) ==
    IF ~file_exists(node) \/ ~is_symlink(node) THEN ReadResult("none", Purged)
    ELSE ReadResult("none", [st |-> "present", source |-> readlink(node)])

Symlink_read_resource(node) ==
    IF ~file_exists(node) THEN ReadResult("none", Purged)
    ELSE IF ~is_symlink(node) THEN ReadResult("conflict", Unread)
    ELSE ReadResult("none", [st |-> "present", source |-> readlink(node)])

\* os.symlink raises FileExistsError on an occupied target
Symlink_create_resource(node, d) ==
    IF file_exists(node)
    THEN Result(node, <<Call("symlink", d.source)>>, "io", "none")
    ELSE Result([kind |-> "link", source |-> d.source],
                <<Call("symlink", d.source)>>, "none", "created")

\* os.remove raises FileNotFoundError on an absent target
Symlink_delete_resource(node) ==
    IF ~file_exists(node)
    THEN Result(node, <<Call("remove", "target")>>, "io", "none")
    ELSE Result(Absent, <<Call("remove", "target")>>, "none", "purged")

Symlink_update_resource(node, d) ==
    IF ~file_exists(node)
    THEN Result(node, <<Call("remove", "target")>>, "io", "none")
    ELSE Result([kind |-> "link", source |-> d.source],
                <<Call("remove", "target"), Call("symlink", d.source)>>,
                "none", "updated")

LinkStart ==
    /\ lPc \in {"idle", "done"}
    /\ lPc' = "start"
    /\ lCur' = Unread
    /\ lErr' = "none"
    /\ lOutcome' = "none"
    /\ lLog' = <<>>
    /\ lOp' = "none"
    /\ UNCHANGED <<lNode, lDesired>>
    /\ LinkFrame

\* read_resource; an exception other than ResourcePurged ends the pass
LinkRead ==
    /\ lPc = "start"
    /\ LET r == Symlink_read_resource(lNode)
       IN  /\ lCur' = r.cur
           /\ lErr' = r.err
           /\ lPc' = IF r.err = "none" THEN "read" ELSE "done"
    /\ UNCHANGED <<lNode, lDesired, lOutcome, lLog, lOp>>
    /\ LinkFrame

LinkFinish(op, r) ==
    /\ lOp' = op
    /\ lNode' = r.node
    /\ lLog' = r.log
    /\ lErr' = r.err
    /\ lOutcome' = r.outcome
    /\ lPc' = "done"
    /\ UNCHANGED <<lDesired, lCur>>
    /\ LinkFrame

LinkCreate ==
    /\ lPc = "read"
    /\ ~lDesired.purged
    /\ lCur = Purged
    /\ LinkFinish("create", Symlink_create_resource(lNode, lDesired))

LinkDelete ==
    /\ lPc = "read"
    /\ lDesired.purged
    /\ lCur # Purged
    /\ LinkFinish("delete", Symlink_delete_resource(lNode))

LinkUpdate ==
    /\ lPc = "read"
    /\ ~lDesired.purged
    /\ lCur # Purged
    /\ lCur.source # lDesired.source
    /\ LinkFinish("update", Symlink_update_resource(lNode, lDesired))

LinkUnchanged ==
    /\ lPc = "read"
    /\ \/ lDesired.purged /\ lCur = Purged
       \/ ~lDesired.purged /\ lCur # Purged /\ lCur.source = lDesired.source
    /\ lPc' = "done"
    /\ UNCHANGED <<lNode, lDesired, lCur, lErr, lOutcome, lLog, lOp>>
    /\ LinkFrame

LinkHostChange ==
    /\ \E n \in LinkNodes : n # lNode /\ lNode' = n
    /\ UNCHANGED <<lDesired, lPc, lCur, lErr, lOutcome, lLog, lOp>>
    /\ LinkFrame

LinkInit ==
    /\ lNode \in LinkNodes
    /\ lDesired \in LinkDescriptors
    /\ lPc = "idle"
    /\ lCur = Unread
    /\ lErr = "none"
    /\ lOutcome = "none"
    /\ lLog = <<>>
    /\ lOp = "none"

LinkIdle ==
    /\ lNode = Absent
    /\ lDesired = [source |-> "/opt/a", purged |-> FALSE]
    /\ lPc = "idle"
    /\ lCur = Unread
    /\ lErr = "none"
    /\ lOutcome = "none"
    /\ lLog = <<>>
    /\ lOp = "none"

LinkNext ==
    \/ LinkStart
    \/ LinkRead
    \/ LinkCreate
    \/ LinkDelete
    \/ LinkUpdate
    \/ LinkUnchanged
    \/ LinkHostChange

(***************************************************************************)
(* AgentConfigHandler: one reconciliation per agent name, all of them on   *)
(* the one autostart agent map of the environment                          *)
(***************************************************************************)
Agents == {"agent1", "agent2"}
MapKeys == Agents \cup {"internal"}
URIs == {"local:", "ssh://host"}
NoEntry == "NoEntry"

AgentMaps == UNION {[D -> URIs] : D \in SUBSET MapKeys}

AgentDescriptors == [uri : URIs, purged : BOOLEAN]

Entry(m, k) == IF k \in DOMAIN m THEN m[k] ELSE NoEntry

\* agent_config[k] = v
dict_set(m, k, v) == [x \in DOMAIN m \cup {k} |-> IF x = k THEN v ELSE m[x]]

\* del agent_config[k]
dict_del(m, k) == [x \in DOMAIN m \ {k} |-> m[x]]

_get_map(setting) == setting

_set_map_merge(setting, agent_config) ==
    [x \in DOMAIN setting \cup DOMAIN agent_config |->
        IF x \in DOMAIN agent_config THEN agent_config[x] ELSE setting[x]]

\* set_setting replaces the value of the setting by agent_config
_set_map(setting, agent_config) == agent_config

WriteResult(err, map) == [err |-> err, map |-> map]

AgentConfig_read_resource(agent_config, agentname) ==
    IF agentname \notin DOMAIN agent_config THEN Purged
    ELSE [st |-> "present", uri |-> agent_config[agentname]]

AgentConfig_create_fresh(agent_config, agentname, d) ==
    WriteResult("none", dict_set(dict_del(agent_config, "internal"), agentname, d.uri))

AgentConfig_create_resource(agent_config, agentname, d) ==
    WriteResult("none", dict_set(agent_config, agentname, d.uri))

AgentConfig_delete_resource(agent_config, agentname) ==
    IF agentname \notin DOMAIN agent_config
    THEN WriteResult("KeyError", agent_config)
    ELSE WriteResult("none", dict_del(agent_config, agentname))

AgentConfig_update_resource(agent_config, agentname, d) ==
    WriteResult("none", dict_set(agent_config, agentname, d.uri))

AgentStart(a) ==
    /\ aPc[a] \in {"idle", "done"}
    /\ aPc' = [aPc EXCEPT ![a] = "start"]
    /\ aCur' = [aCur EXCEPT ![a] = Unread]
    /\ aErr' = [aErr EXCEPT ![a] = "none"]
    /\ aOutcome' = [aOutcome EXCEPT ![a] = "none"]
    /\ aOp' = [aOp EXCEPT ![a] = "none"]
    /\ UNCHANGED <<remote, aDesired, aCtx, aDirty, aStale, aLast>>
    /\ AgentFrame

AgentRead(a) ==
    /\ aPc[a] = "start"
    /\ aCtx' = [aCtx EXCEPT ![a] = _get_map(remote)]
    /\ aCur' = [aCur EXCEPT ![a] = AgentConfig_read_resource(_get_map(remote), a)]
    /\ aPc' = [aPc EXCEPT ![a] = "read"]
    /\ aDirty' = [aDirty EXCEPT ![a] = FALSE]
    /\ UNCHANGED <<remote, aDesired, aErr, aOutcome, aOp, aStale, aLast>>
    /\ AgentFrame

\* the handler mutates the dict under ctx "map" and, unless it raised,
\* writes it back whole; it calls none of ctx.set_created/updated/purged
AgentFinish(a, op, r) ==
    /\ aOp' = [aOp EXCEPT ![a] = op]
    /\ aErr' = [aErr EXCEPT ![a] = r.err]
    /\ aCtx' = [aCtx EXCEPT ![a] = r.map]
    /\ aPc' = [aPc EXCEPT ![a] = "done"]
    /\ IF r.err = "none"
       THEN /\ remote' = _set_map(remote, r.map)
            /\ aDirty' = [b \in Agents |-> IF b # a /\ aPc[b] = "read" THEN TRUE ELSE aDirty[b]]
            /\ aStale' = [aStale EXCEPT ![a] = aDirty[a]]
            /\ aLast' = a
       ELSE UNCHANGED <<remote, aDirty, aStale, aLast>>
    /\ UNCHANGED <<aDesired, aCur, aOutcome>>
    /\ AgentFrame

AgentCreate(a) ==
    /\ aPc[a] = "read"
    /\ ~aDesired[a].purged
    /\ aCur[a] = Purged
    /\ AgentFinish(a, "create", AgentConfig_create_resource(aCtx[a], a, aDesired[a]))

AgentDelete(a) ==
    /\ aPc[a] = "read"
    /\ aDesired[a].purged
    /\ aCur[a] # Purged
    /\ AgentFinish(a, "delete", AgentConfig_delete_resource(aCtx[a], a))

AgentUpdate(a) ==
    /\ aPc[a] = "read"
    /\ ~aDesired[a].purged
    /\ aCur[a] # Purged
    /\ aCur[a].uri # aDesired[a].uri
    /\ AgentFinish(a, "update", AgentConfig_update_resource(aCtx[a], a, aDesired[a]))

AgentUnchanged(a) ==
    /\ aPc[a] = "read"
    /\ \/ aDesired[a].purged /\ aCur[a] = Purged
       \/ ~aDesired[a].purged /\ aCur[a] # Purged /\ aCur[a].uri = aDesired[a].uri
    /\ aPc' = [aPc EXCEPT ![a] = "done"]
    /\ UNCHANGED <<remote, aDesired, aCtx, aCur, aErr, aOutcome, aOp, aDirty, aStale, aLast>>
    /\ AgentFrame

AgentInit ==
    /\ remote \in AgentMaps
    /\ aDesired \in [Agents -> AgentDescriptors]
    /\ aPc = [a \in Agents |-> "idle"]
    /\ aCtx = [a \in Agents |-> [x \in {} |-> "local:"]]
    /\ aCur = [a \in Agents |-> Unread]
    /\ aErr = [a \in Agents |-> "none"]
    /\ aOutcome = [a \in Agents |-> "none"]
    /\ aOp = [a \in Agents |-> "none"]
    /\ aDirty = [a \in Agents |-> FALSE]
    /\ aStale = [a \in Agents |-> FALSE]
    /\ aLast = None

AgentIdle ==
    /\ remote = [x \in {} |-> "local:"]
    /\ aDesired = [a \in Agents |-> [uri |-> "local:", purged |-> FALSE]]
    /\ aPc = [a \in Agents |-> "idle"]
    /\ aCtx = [a \in Agents |-> [x \in {} |-> "local:"]]
    /\ aCur = [a \in Agents |-> Unread]
    /\ aErr = [a \in Agents |-> "none"]
    /\ aOutcome = [a \in Agents |-> "none"]
    /\ aOp = [a \in Agents |-> "none"]
    /\ aDirty = [a \in Agents |-> FALSE]
    /\ aStale = [a \in Agents |-> FALSE]
    /\ aLast = None

AgentNext ==
    \E a \in Agents :
        \/ AgentStart(a)
        \/ AgentRead(a)
        \/ AgentCreate(a)
        \/ AgentDelete(a)
        \/ AgentUpdate(a)
        \/ AgentUnchanged(a)

(***************************************************************************)
(* The availability probes of the two Service reconcilers                  *)
(***************************************************************************)
ServiceBinaries == {"/usr/bin/systemctl", "/bin/systemctl", "/sbin/chkconfig", "/sbin/service"}

bin_exists(present, path) == path \in present

\* SystemdService.available: the new _systemd_path and the value returned
SystemdService_available(present, path) ==
    LET p == IF bin_exists(present, "/usr/bin/systemctl") THEN "/usr/bin/systemctl"
             ELSE IF bin_exists(present, "/bin/systemctl") THEN "/bin/systemctl"
             ELSE path
    IN  [path |-> p, ret |-> (p # None)]

ServiceService_available(present) ==
    /\ bin_exists(present, "/sbin/chkconfig")
    /\ bin_exists(present, "/sbin/service")
    /\ ~bin_exists(present, "/usr/bin/systemctl")

Answer(b) == IF b THEN "yes" ELSE "no"

\* SystemdService.__init__
SystemdNew ==
    /\ sysPath' = None
    /\ sysAvail' = "unprobed"
    /\ sysFresh' = FALSE
    /\ UNCHANGED <<bins, svcAvail, svcFresh>>
    /\ SvcFrame

SystemdProbe ==
    /\ LET r == SystemdService_available(bins, sysPath)
       IN  sysPath' = r.path /\ sysAvail' = Answer(r.ret)
    /\ sysFresh' = TRUE
    /\ UNCHANGED <<bins, svcAvail, svcFresh>>
    /\ SvcFrame

ServiceProbe ==
    /\ svcAvail' = Answer(ServiceService_available(bins))
    /\ svcFresh' = TRUE
    /\ UNCHANGED <<bins, sysPath, sysAvail, sysFresh>>
    /\ SvcFrame

\* a package is installed on, or removed from, the host
SvcHostChange ==
    /\ \E b \in ServiceBinaries :
          bins' = IF b \in bins THEN bins \ {b} ELSE bins \cup {b}
    /\ sysFresh' = FALSE
    /\ svcFresh' = FALSE
    /\ UNCHANGED <<sysPath, sysAvail, svcAvail>>
    /\ SvcFrame

SvcInit ==
    /\ bins \in SUBSET ServiceBinaries
    /\ sysPath = None
    /\ sysAvail = "unprobed"
    /\ svcAvail = "unprobed"
    /\ sysFresh = FALSE
    /\ svcFresh = FALSE

SvcIdle ==
    /\ bins = {}
    /\ sysPath = None
    /\ sysAvail = "unprobed"
    /\ svcAvail = "unprobed"
    /\ sysFresh = FALSE
    /\ svcFresh = FALSE

SvcNext ==
    \/ SystemdNew
    \/ SystemdProbe
    \/ ServiceProbe
    \/ SvcHostChange

(***************************************************************************)
(* Content Assembler: generate_content                                     *)
(***************************************************************************)
MaxFragments == 3

Alphabet == <<"a", "b", "c">>

\* the code point order of the characters of the model
Ord(c) == CHOOSE i \in 1..Len(Alphabet) : Alphabet[i] = c

\* Python's s < t on str
RECURSIVE StrLess(_, _)
StrLess(s, t) ==
    IF Len(t) = 0 THEN FALSE
    ELSE IF Len(s) = 0 THEN TRUE
    ELSE IF Char(s, 1) # Char(t, 1) THEN Ord(Char(s, 1)) < Ord(Char(t, 1))
    ELSE StrLess(SubSeq(s, 2, Len(s)), SubSeq(t, 2, Len(t)))

FragmentValues == {"a", "b", "ab"}
SortingKeys == {None, "a", "c"}
Fragments == [sorting_key : SortingKeys, value : FragmentValues]
Separators == {"\n"}

NotRun == [ran |-> FALSE]
Ran(text) == [ran |-> TRUE, text |-> text]

\* the (key, value) tuple appended to sort_list
SortTuple(content) ==
    IF content.sorting_key = None THEN <<content.value, content.value>>
    ELSE <<content.sorting_key, content.value>>

\* insert tup after every element whose key is not greater: list.sort is stable
RECURSIVE InsertByKey(_, _)
InsertByKey(sorted, tup) ==
    IF Len(sorted) = 0 THEN <<tup>>
    ELSE IF StrLess(tup[1], sorted[1][1]) THEN <<tup>> \o sorted
    ELSE <<sorted[1]>> \o InsertByKey(Tail(sorted), tup)

\* sort_list.sort(key=lambda tup: tup[0])
RECURSIVE SortByKey(_)
SortByKey(list) ==
    IF Len(list) = 0 THEN <<>>
    ELSE InsertByKey(SortByKey(SubSeq(list, 1, Len(list) - 1)), list[Len(list)])

\* seperator.join(strings)
RECURSIVE Join(_, _)
Join(strings, seperator) ==
    IF Len(strings) = 0 THEN ""
    ELSE IF Len(strings) = 1 THEN strings[1]
    ELSE strings[1] \o seperator \o Join(Tail(strings), seperator)

generate_content(content_list, seperator) ==
    LET sort_list == [i \in 1..Len(content_list) |-> SortTuple(content_list[i])]
        sorted    == SortByKey(sort_list)
    IN  Join([i \in 1..Len(sorted) |-> sorted[i][2]], seperator) \o seperator

AsmGenerate ==
    /\ asmOut' = Ran(generate_content(asmList, asmSep))
    /\ asmRef' = IF asmRef = NotRun THEN asmOut' ELSE asmRef
    /\ UNCHANGED <<asmList, asmSep>>
    /\ AsmFrame

\* the same fragments are supplied in another order
AsmReorder ==
    /\ \E i \in 1..(Len(asmList) - 1) :
          /\ asmList[i] # asmList[i + 1]
          /\ asmList' = [asmList EXCEPT ![i] = asmList[i + 1], ![i + 1] = asmList[i]]
    /\ asmOut' = NotRun
    /\ UNCHANGED <<asmSep, asmRef>>
    /\ AsmFrame

AsmInit ==
    /\ asmList \in UNION {[1..n -> Fragments] : n \in 0..MaxFragments}
    /\ asmSep \in Separators
    /\ asmOut = NotRun
    /\ asmRef = NotRun

AsmIdle ==
    /\ asmList = <<>>
    /\ asmSep = "\n"
    /\ asmOut = NotRun
    /\ asmRef = NotRun

AsmNext ==
    \/ AsmGenerate
    \/ AsmReorder

(***************************************************************************)
(* YumPackage: text helpers (str.strip, str.split, str.startswith, the     *)
(* regular expressions) on strings whose only whitespace is the space      *)
(***************************************************************************)
IsSpace(c) == c = " "

RECURSIVE LStrip(_)
LStrip(s) ==
    IF Len(s) > 0 /\ IsSpace(Char(s, 1)) THEN LStrip(SubSeq(s, 2, Len(s))) ELSE s

RECURSIVE RStrip(_)
RStrip(s) ==
    IF Len(s) > 0 /\ IsSpace(Char(s, Len(s))) THEN RStrip(SubSeq(s, 1, Len(s) - 1)) ELSE s

\* s.strip()
Strip(s) == RStrip(LStrip(s))

\* s.startswith(prefix)
StartsWith(s, prefix) == Len(s) >= Len(prefix) /\ SubSeq(s, 1, Len(prefix)) = prefix

\* the positions of s that hold c
Positions(s, c) == {i \in 1..Len(s) : Char(s, i) = c}

Min(S) == CHOOSE x \in S : \A y \in S : x <= y
Max(S) == CHOOSE x \in S : \A y \in S : x >= y

\* s.split(sep), sep one character
RECURSIVE Split(_, _)
Split(s, sep) ==
    IF Positions(s, sep) = {} THEN <<s>>
    ELSE LET i == Min(Positions(s, sep))
         IN  <<SubSeq(s, 1, i - 1)>> \o Split(SubSeq(s, i + 1, Len(s)), sep)

\* the maximal runs of non-space characters, left to right
RECURSIVE Columns(_)
Columns(s) ==
    LET t == LStrip(s)
    IN  IF Len(t) = 0 THEN <<>>
        ELSE IF Positions(t, " ") = {} THEN <<t>>
        ELSE LET i == Min(Positions(t, " "))
             IN  <<SubSeq(t, 1, i - 1)>> \o Columns(SubSeq(t, i, Len(t)))

\* re.search(r"^(.+) :\s+(.+)", line): the lengths the key group can have
KeyLengths(line) ==
    {i \in 1..Len(line) :
        /\ i + 4 <= Len(line)
        /\ Char(line, i + 1) = " "
        /\ Char(line, i + 2) = ":"
        /\ IsSpace(Char(line, i + 3))}

FieldMatches(line) == KeyLengths(line) # {}

\* group 1: (.+) is greedy
FieldKey(line) == SubSeq(line, 1, Max(KeyLengths(line)))

\* group 2: \s+ is greedy and gives back one space when nothing else is left
FieldValue(line) ==
    LET from == Max(KeyLengths(line)) + 3
        rest == LStrip(SubSeq(line, from, Len(line)))
    IN  IF Len(rest) > 0 THEN rest ELSE " "

Return(ret) == [exc |-> "none", ret |-> ret]
Raise(exc) == [exc |-> exc]

\* the loop of _parse_fields from one line on, with props and old_key so far
RECURSIVE ParseFields(_, _, _)
ParseFields(lines, props, old_key) ==
    IF Len(lines) = 0 THEN Return(props)
    ELSE LET line == Head(lines)
         IN  IF Strip(line) = "" THEN ParseFields(Tail(lines), props, old_key)
             ELSE IF Strip(line) = "Available Packages" THEN Return(props)
             ELSE IF ~FieldMatches(line) THEN ParseFields(Tail(lines), props, old_key)
             ELSE LET key   == Strip(FieldKey(line))
                      value == FieldValue(line)
                  IN  IF key = ""
                      THEN IF old_key \notin DOMAIN props
                           THEN Raise("KeyError")
                           ELSE ParseFields(Tail(lines),
                                    [props EXCEPT ![old_key] = @ \o " " \o value], old_key)
                      ELSE ParseFields(Tail(lines), dict_set(props, key, value), key)

EmptyDict == [x \in {} |-> ""]

_parse_fields(lines) == ParseFields(lines, EmptyDict, None)

NoUpdate == <<>>

\* the tail of check_resource: the available update read off lines[0]
ParseUpdate(line) ==
    IF Len(Columns(line)) >= 3 /\ ~StartsWith(line, "Security:")
    THEN LET version_str == Columns(line)[2]
             pieces      == Split(version_str, "-")
         IN  IF Len(pieces) # 2 THEN Raise("ValueError")
             ELSE Return(<<pieces[1], pieces[2]>>)
    ELSE Return(NoUpdate)

YumPackage_check_resource(info_lines, update_line) ==
    LET parsed == _parse_fields(IF Len(info_lines) = 0 THEN <<>> ELSE Tail(info_lines))
    IN  IF parsed.exc # "none" THEN Raise(parsed.exc)
        ELSE LET output == parsed.ret
             IN  IF "Repo" \notin DOMAIN output THEN Return([state |-> "removed"])
                 ELSE IF "Version" \notin DOMAIN output \/ "Release" \notin DOMAIN output
                      THEN Raise("KeyError")
                 ELSE LET update == ParseUpdate(update_line)
                      IN  IF update.exc # "none" THEN Raise(update.exc)
                          ELSE Return([state   |-> IF output["Repo"] \in {"installed", "@System"}
                                                   THEN "installed" ELSE "removed",
                                       version |-> output["Version"],
                                       release |-> output["Release"],
                                       update  |-> update.ret])

MaxInfoLines == 3

InfoSamples ==
    {"Name : vim", "Repo : installed", "Version : 8.0", "Release : 1.el7",
     "     : more", "", "Available Packages", "Loaded plugins: fastestmirror"}

UpdateSamples ==
    {"", "vim.x86_64 8.0-2.el7 updates", "vim.x86_64   8.0-2-rc1   updates",
     "vim.x86_64 8.0 updates", "vim.x86_64 8.0-2.el7",
     "Security: kernel-3.10.0-957 is an installed security update"}

NotCalled == [exc |-> "not called"]

PkgCheckResource ==
    /\ pkPc = "start"
    /\ pkFields' = _parse_fields(Tail(pkInfo))
    /\ pkData' = YumPackage_check_resource(pkInfo, pkUpd)
    /\ pkPc' = "done"
    /\ UNCHANGED <<pkInfo, pkUpd>>
    /\ PkgFrame

\* the next reconciliation attempt of the package
PkgNextAttempt ==
    /\ pkPc = "done"
    /\ pkPc' = "start"
    /\ pkFields' = NotCalled
    /\ pkData' = NotCalled
    /\ UNCHANGED <<pkInfo, pkUpd>>
    /\ PkgFrame

PkgInit ==
    /\ pkInfo \in {<<"Installed Packages">> \o body :
                      body \in UNION {[1..n -> InfoSamples] : n \in 0..MaxInfoLines}}
    /\ pkUpd \in UpdateSamples
    /\ pkPc = "start"
    /\ pkFields = NotCalled
    /\ pkData = NotCalled

PkgIdle ==
    /\ pkInfo = <<"Installed Packages">>
    /\ pkUpd = ""
    /\ pkPc = "start"
    /\ pkFields = NotCalled
    /\ pkData = NotCalled

PkgNext ==
    \/ PkgCheckResource
    \/ PkgNextAttempt

(***************************************************************************)
(* store_file: the bytes uploaded for a std::File's content                *)
(***************************************************************************)
MaxPrefix == 2
MaxSuffix == 1

Payloads == {"", "x", "\nx"}

\* obj.content: an Unknown, a string, or a FileMarker naming a file with these bytes
Unknown == [kind |-> "Unknown", data |-> ""]

FileContents ==
    {Unknown} \cup [kind : {"str", "FileMarker"}, data : Payloads]

FileObjects ==
    [content : FileContents,
     prefix_content : UNION {[1..n -> Fragments] : n \in 0..MaxPrefix},
     suffix_content : UNION {[1..n -> Fragments] : n \in 0..MaxSuffix},
     content_seperator : Separators]

NotStored == [ran |-> FALSE]

\* store_file: whether it returned the Unknown, and the bytes given to upload_file
store_file(obj) ==
    IF obj.content = Unknown THEN [ran |-> TRUE, unknown |-> TRUE, bytes |-> ""]
    ELSE LET c0 == obj.content.data
             c1 == IF Len(obj.prefix_content) > 0
                   THEN generate_content(obj.prefix_content, obj.content_seperator)
                            \o obj.content_seperator \o c0
                   ELSE c0
             c2 == IF Len(obj.suffix_content) > 0
                   THEN c1 \o obj.content_seperator
                            \o generate_content(obj.suffix_content, obj.content_seperator)
                   ELSE c1
         IN  [ran |-> TRUE, unknown |-> FALSE, bytes |-> c2]

\* the exporter maps the hash attribute of the file
StoreFileRun ==
    /\ sfOut = NotStored
    /\ sfOut' = store_file(sfObj)
    /\ UNCHANGED sfObj
    /\ StoreFrame

\* the model is recompiled with another payload for the same file
StoreFileEdit ==
    /\ \E c \in FileContents : c # sfObj.content /\ sfObj' = [sfObj EXCEPT !.content = c]
    /\ sfOut' = NotStored
    /\ StoreFrame

StoreInit ==
    /\ sfObj \in FileObjects
    /\ sfOut = NotStored

StoreIdle ==
    /\ sfObj = [content |-> Unknown, prefix_content |-> <<>>, suffix_content |-> <<>>,
                content_seperator |-> "\n"]
    /\ sfOut = NotStored

StoreNext ==
    \/ StoreFileRun
    \/ StoreFileEdit

(***************************************************************************)
(* DirectoryHandler: the path and the _io primitives on it                 *)
(***************************************************************************)
DirNodes ==
    {Absent} \cup
    [kind : {"dir"}, mode : HostModes, owner : Users, group : Groups, empty : BOOLEAN]

DirDescriptors ==
    [permissions : FilePerms, owner : Users, group : Groups, purged : BOOLEAN]

DirFields == {"permissions", "owner", "group"}

DirChanges(cur, d) == {f \in DirFields : cur[f] # d[f]}

\* the mode bits os.mkdir leaves under umask 022
MkdirMode == ParseOctal("755")

mkdir(node) ==
    [kind |-> "dir", mode |-> MkdirMode, owner |-> "root", group |-> "root", empty |-> TRUE]

\* os.rmdir removes an empty directory and raises on anything else
rmdir_ok(node) == file_exists(node) /\ node.empty

Directory_read_resource(node) ==
    IF ~file_exists(node) THEN ReadResult("none", Purged)
    ELSE ReadResult("none", [st |-> "present",
                             owner |-> file_stat(node).owner,
                             group |-> file_stat(node).group,
                             permissions |-> file_stat(node).permissions])

Directory_create_resource(node, d) ==
    LET perm == ToString(d.permissions)
    IN  IF file_exists(node) THEN Result(node, <<Call("mkdir", "path")>>, "io", "none")
        ELSE IF ~IsOctal(perm)
             THEN Result(mkdir(node), <<Call("mkdir", "path"), Call("chmod", perm)>>,
                         "chmod", "none")
        ELSE Result(chown(chmod(mkdir(node), perm), d.owner, d.group),
                    <<Call("mkdir", "path"), Call("chmod", perm),
                      Call("chown", <<d.owner, d.group>>)>>,
                    "none", "created")

Directory_delete_resource(node) ==
    IF rmdir_ok(node)
    THEN Result(Absent, <<Call("rmdir", "path")>>, "none", "purged")
    ELSE Result(node, <<Call("rmdir", "path")>>, "io", "none")

Directory_update_resource(node, changes, d) ==
    LET perm == ToString(d.permissions)
        l1   == IF "permissions" \in changes THEN <<Call("chmod", perm)>> ELSE <<>>
        l2   == IF NeedsChown(changes)
                THEN Append(l1, Call("chown", <<d.owner, d.group>>)) ELSE l1
    IN  IF "permissions" \in changes /\ ~IsOctal(perm)
        THEN Result(node, l1, "chmod", "none")
        ELSE IF ~file_exists(node)
        THEN IF l2 = <<>> THEN Result(node, <<>>, "none", "updated")
             ELSE Result(node, <<l2[1]>>, "io", "none")
        ELSE LET n1 == IF "permissions" \in changes THEN chmod(node, perm) ELSE node
                 n2 == IF NeedsChown(changes) THEN chown(n1, d.owner, d.group) ELSE n1
             IN  Result(n2, l2, "none", "updated")

DirStart ==
    /\ dPc \in {"idle", "done"}
    /\ dPc' = "start"
    /\ dCur' = Unread
    /\ dErr' = "none"
    /\ dOutcome' = "none"
    /\ dLog' = <<>>
    /\ dOp' = "none"
    /\ UNCHANGED <<dNode, dDesired>>
    /\ DirFrame

DirRead ==
    /\ dPc = "start"
    /\ LET r == Directory_read_resource(dNode)
       IN  /\ dCur' = r.cur
           /\ dErr' = r.err
           /\ dPc' = "read"
    /\ UNCHANGED <<dNode, dDesired, dOutcome, dLog, dOp>>
    /\ DirFrame

DirFinish(op, r) ==
    /\ dOp' = op
    /\ dNode' = r.node
    /\ dLog' = r.log
    /\ dErr' = r.err
    /\ dOutcome' = r.outcome
    /\ dPc' = "done"
    /\ UNCHANGED <<dDesired, dCur>>
    /\ DirFrame

DirCreate ==
    /\ dPc = "read"
    /\ ~dDesired.purged
    /\ dCur = Purged
    /\ DirFinish("create", Directory_create_resource(dNode, dDesired))

DirDelete ==
    /\ dPc = "read"
    /\ dDesired.purged
    /\ dCur # Purged
    /\ DirFinish("delete", Directory_delete_resource(dNode))

DirUpdate ==
    /\ dPc = "read"
    /\ ~dDesired.purged
    /\ dCur # Purged
    /\ DirChanges(dCur, dDesired) # {}
    /\ DirFinish("update",
           Directory_update_resource(dNode, DirChanges(dCur, dDesired), dDesired))

DirUnchanged ==
    /\ dPc = "read"
    /\ \/ dDesired.purged /\ dCur = Purged
       \/ ~dDesired.purged /\ dCur # Purged /\ DirChanges(dCur, dDesired) = {}
    /\ dPc' = "done"
    /\ UNCHANGED <<dNode, dDesired, dCur, dErr, dOutcome, dLog, dOp>>
    /\ DirFrame

\* anything else on the host creates, removes, fills or re-modes the path
DirHostChange ==
    /\ \E n \in DirNodes : n # dNode /\ dNode' = n
    /\ UNCHANGED <<dDesired, dPc, dCur, dErr, dOutcome, dLog, dOp>>
    /\ DirFrame

DirInit ==
    /\ dNode \in DirNodes
    /\ dDesired \in DirDescriptors
    /\ dPc = "idle"
    /\ dCur = Unread
    /\ dErr = "none"
    /\ dOutcome = "none"
    /\ dLog = <<>>
    /\ dOp = "none"

DirIdle ==
    /\ dNode = Absent
    /\ dDesired = [permissions |-> 755, owner |-> "root", group |-> "root", purged |-> FALSE]
    /\ dPc = "idle"
    /\ dCur = Unread
    /\ dErr = "none"
    /\ dOutcome = "none"
    /\ dLog = <<>>
    /\ dOp = "none"

DirNext ==
    \/ DirStart
    \/ DirRead
    \/ DirCreate
    \/ DirDelete
    \/ DirUpdate
    \/ DirUnchanged
    \/ DirHostChange

(***************************************************************************)
(* do_changes of the two Service reconcilers                               *)
(***************************************************************************)
ServiceProviders == {"systemd", "redhat_service"}

\* the change-set list_changes hands over: its keys and their desired values
ServiceChanges ==
    [keys : SUBSET {"state", "onboot"}, state : {"running", "stopped"}, onboot : BOOLEAN]

\* what _io.run returns for a command: the error output and the exit code
ErrorOutputs == {"", "Failed to start x.service: Unit not found.", "Job Failed"}
ExitCodes == {0, 1}
RunResults == [stderr : ErrorOutputs, code : ExitCodes]

\* re.search("^Failed", result[1])
FailedMarker(result) == StartsWith(result.stderr, "Failed")

Command(binary, args) == [binary |-> binary, args |-> args]

Applied(log, err, outcome) == [called |-> TRUE, log |-> log, err |-> err, outcome |-> outcome]

NotApplied == [called |-> FALSE]

\* results[k]: what the command run for change k returns
SystemdService_do_changes(changes, results) ==
    LET stateCmd == Command("systemctl",
                        <<IF changes.state = "stopped" THEN "stop" ELSE "start", "x.service">>)
        bootCmd  == Command("systemctl",
                        <<IF ~changes.onboot THEN "disable" ELSE "enable", "x.service">>)
        l1       == IF "state" \in changes.keys THEN <<stateCmd>> ELSE <<>>
        l2       == IF "onboot" \in changes.keys THEN Append(l1, bootCmd) ELSE l1
    IN  IF "state" \in changes.keys /\ FailedMarker(results["state"])
        THEN Applied(l1, "failed", "none")
        ELSE IF "onboot" \in changes.keys /\ FailedMarker(results["onboot"])
        THEN Applied(l2, "failed", "none")
        ELSE Applied(l2, "none", IF changes.keys # {} THEN "updated" ELSE "none")

ServiceService_do_changes(changes, results) ==
    LET stateCmd == Command("/sbin/service",
                        <<"x", IF changes.state = "stopped" THEN "stop" ELSE "start">>)
        bootCmd  == Command("/sbin/chkconfig",
                        <<"x", IF ~changes.onboot THEN "off" ELSE "on">>)
        l1       == IF "state" \in changes.keys THEN <<stateCmd>> ELSE <<>>
        l2       == IF "onboot" \in changes.keys THEN Append(l1, bootCmd) ELSE l1
    IN  IF "state" \in changes.keys /\ FailedMarker(results["state"])
        THEN Applied(l1, "failed", "none")
        ELSE IF "onboot" \in changes.keys /\ FailedMarker(results["onboot"])
        THEN Applied(l2, "failed", "none")
        ELSE Applied(l2, "none", IF changes.keys # {} THEN "updated" ELSE "none")

ApplyDoChanges ==
    /\ ~saOut.called
    /\ saOut' = IF saProv = "systemd"
                THEN SystemdService_do_changes(saChanges, saResults)
                ELSE ServiceService_do_changes(saChanges, saResults)
    /\ UNCHANGED <<saProv, saChanges, saResults>>
    /\ ApplyFrame

\* the caller deploys the resource again: the commands may now answer otherwise
ApplyNextAttempt ==
    /\ saOut.called
    /\ saOut' = NotApplied
    /\ saResults' \in [{"state", "onboot"} -> RunResults]
    /\ UNCHANGED <<saProv, saChanges>>
    /\ ApplyFrame

ApplyInit ==
    /\ saProv \in ServiceProviders
    /\ saChanges \in ServiceChanges
    /\ saResults \in [{"state", "onboot"} -> RunResults]
    /\ saOut = NotApplied

ApplyIdle ==
    /\ saProv = "systemd"
    /\ saChanges = [keys |-> {}, state |-> "running", onboot |-> TRUE]
    /\ saResults = [k \in {"state", "onboot"} |-> [stderr |-> "", code |-> 0]]
    /\ saOut = NotApplied

ApplyNext ==
    \/ ApplyDoChanges
    \/ ApplyNextAttempt

(***************************************************************************)
(* YumPackage: list_changes and do_changes                                 *)
(***************************************************************************)
PackageStates == {"removed", "installed", "latest"}

\* outputs of the info query: installed, available only, unknown, a wrapped field
InfoOutputs ==
    {<<"Installed Packages", "Name : vim", "Repo : installed", "Version : 8.0", "Release : 1.el7">>,
     <<"Available Packages", "Name : vim", "Repo : updates", "Version : 8.0", "Release : 2.el7">>,
     <<"Error: No matching Packages to list">>,
     <<"Installed Packages", "Repo : @System", "Version : 8.0", "Release : 1.el7", "     : more">>,
     <<"Installed Packages", "Repo : installed", "Version : 8.0">>}

YumCommands == {"remove", "install", "update"}

\* list_changes, given what check_resource returned
YumPackage_list_changes_any(desired, state) ==
    LET c1 == IF desired = "removed" /\ state.state # "removed"
              THEN dict_set(EmptyDict, "state", <<state.state, desired>>)
              ELSE IF desired \in {"installed", "latest"} /\ state.state # "installed"
              THEN dict_set(EmptyDict, "state", <<state.state, "installed">>)
              ELSE EmptyDict
    IN  IF "update" \in DOMAIN state /\ state.update # NoUpdate
        THEN dict_set(c1, "version", <<<<state.version, state.release>>, state.update>>)
        ELSE c1

YumPackage_list_changes(desired, state) ==
    LET c1 == IF desired = "removed" /\ state.state # "removed"
              THEN dict_set(EmptyDict, "state", <<state.state, desired>>)
              ELSE IF desired \in {"installed", "latest"} /\ state.state # "installed"
              THEN dict_set(EmptyDict, "state", <<state.state, "installed">>)
              ELSE EmptyDict
    IN  IF "update" \in DOMAIN state /\ state.update # NoUpdate /\ desired = "latest"
        THEN dict_set(c1, "version", <<<<state.version, state.release>>, state.update>>)
        ELSE c1

YumResultOkAlways(code) == TRUE

\* _result: output[2] != 0 raises
YumResultOk(code) == code = 0

YumApplied(log, err, outcome) == [log |-> log, err |-> err, outcome |-> outcome]

\* codes[c]: the exit code of the package tool for command c
YumPackage_do_changes(changes, codes) ==
    IF "state" \in DOMAIN changes
    THEN IF changes["state"][2] = "removed"
         THEN IF ~YumResultOk(codes["remove"]) THEN YumApplied(<<"remove">>, "yum", "none")
              ELSE YumApplied(<<"remove">>, "none", "purged")
         ELSE IF changes["state"][2] = "installed"
         THEN IF ~YumResultOk(codes["install"]) THEN YumApplied(<<"install">>, "yum", "none")
              ELSE IF ~YumResultOk(codes["update"])
                   THEN YumApplied(<<"install", "update">>, "yum", "none")
              ELSE YumApplied(<<"install", "update">>, "none", "created")
         ELSE YumApplied(<<>>, "none", "none")
    ELSE IF "version" \in DOMAIN changes
    THEN IF ~YumResultOk(codes["update"]) THEN YumApplied(<<"update">>, "yum", "none")
         ELSE YumApplied(<<"update">>, "none", "updated")
    ELSE YumApplied(<<>>, "none", "none")

NoYum == YumApplied(<<>>, "none", "none")

NoCodes == [c \in YumCommands |-> 0]

\* list_changes: check_resource, then the change-set
PlanListChanges ==
    /\ plPc = "start"
    /\ LET state == YumPackage_check_resource(plInfo, plUpd)
       IN  /\ plState' = state
           /\ IF state.exc # "none"
              THEN plPc' = "done" /\ plChanges' = EmptyDict /\ plOut' = YumApplied(<<>>, state.exc, "none")
              ELSE /\ plPc' = "listed"
                   /\ plChanges' = YumPackage_list_changes(plDesired, state.ret)
                   /\ plOut' = plOut
    /\ UNCHANGED <<plDesired, plInfo, plUpd, plCodes>>
    /\ PlanFrame

PlanDoChanges ==
    /\ plPc = "listed"
    /\ DOMAIN plChanges # {}
    /\ \E codes \in [YumCommands -> ExitCodes] :
          /\ plCodes' = codes
          /\ plOut' = YumPackage_do_changes(plChanges, codes)
    /\ plPc' = "done"
    /\ UNCHANGED <<plDesired, plInfo, plUpd, plState, plChanges>>
    /\ PlanFrame

\* an empty change-set: do_changes is not called
PlanNoChanges ==
    /\ plPc = "listed"
    /\ DOMAIN plChanges = {}
    /\ plPc' = "done"
    /\ UNCHANGED <<plDesired, plInfo, plUpd, plState, plChanges, plOut, plCodes>>
    /\ PlanFrame

\* the next deployment: the package tool may answer otherwise
PlanNextAttempt ==
    /\ plPc = "done"
    /\ plPc' = "start"
    /\ plInfo' \in InfoOutputs
    /\ plUpd' \in UpdateSamples
    /\ plState' = NotCalled
    /\ plChanges' = EmptyDict
    /\ plOut' = NoYum
    /\ plCodes' = NoCodes
    /\ UNCHANGED plDesired
    /\ PlanFrame

PlanInit ==
    /\ plDesired \in PackageStates
    /\ plInfo \in InfoOutputs
    /\ plUpd \in UpdateSamples
    /\ plPc = "start"
    /\ plState = NotCalled
    /\ plChanges = EmptyDict
    /\ plOut = NoYum
    /\ plCodes = NoCodes

PlanIdle ==
    /\ plDesired = "installed"
    /\ plInfo = <<"Error: No matching Packages to list">>
    /\ plUpd = ""
    /\ plPc = "start"
    /\ plState = NotCalled
    /\ plChanges = EmptyDict
    /\ plOut = NoYum
    /\ plCodes = NoCodes

PlanNext ==
    \/ PlanListChanges
    \/ PlanDoChanges
    \/ PlanNoChanges
    \/ PlanNextAttempt

(***************************************************************************)
(* Specifications: one component under study, the others idle              *)
(***************************************************************************)
InitFile == FileInit /\ LinkIdle /\ AgentIdle /\ SvcIdle /\ AsmIdle /\ PkgIdle /\ StoreIdle /\ DirIdle /\ ApplyIdle /\ PlanIdle

SpecFile == InitFile /\ [][FileNext]_vars

InitSymlink == FileIdle /\ LinkInit /\ AgentIdle /\ SvcIdle /\ AsmIdle /\ PkgIdle /\ StoreIdle /\ DirIdle /\ ApplyIdle /\ PlanIdle

SpecSymlink == InitSymlink /\ [][LinkNext]_vars

InitAgent == FileIdle /\ LinkIdle /\ AgentInit /\ SvcIdle /\ AsmIdle /\ PkgIdle /\ StoreIdle /\ DirIdle /\ ApplyIdle /\ PlanIdle

SpecAgent == InitAgent /\ [][AgentNext]_vars

InitService == FileIdle /\ LinkIdle /\ AgentIdle /\ SvcInit /\ AsmIdle /\ PkgIdle /\ StoreIdle /\ DirIdle /\ ApplyIdle /\ PlanIdle

SpecService == InitService /\ [][SvcNext]_vars

InitAssembler == FileIdle /\ LinkIdle /\ AgentIdle /\ SvcIdle /\ AsmInit /\ PkgIdle /\ StoreIdle /\ DirIdle /\ ApplyIdle /\ PlanIdle

SpecAssembler == InitAssembler /\ [][AsmNext]_vars

InitPackage == FileIdle /\ LinkIdle /\ AgentIdle /\ SvcIdle /\ AsmIdle /\ PkgInit /\ StoreIdle /\ DirIdle /\ ApplyIdle /\ PlanIdle

SpecPackage == InitPackage /\ [][PkgNext]_vars

InitStoreFile == FileIdle /\ LinkIdle /\ AgentIdle /\ SvcIdle /\ AsmIdle /\ PkgIdle /\ StoreInit /\ DirIdle /\ ApplyIdle /\ PlanIdle

SpecStoreFile == InitStoreFile /\ [][StoreNext]_vars

InitDirectory == FileIdle /\ LinkIdle /\ AgentIdle /\ SvcIdle /\ AsmIdle /\ PkgIdle /\ StoreIdle /\ DirInit /\ ApplyIdle /\ PlanIdle

SpecDirectory == InitDirectory /\ [][DirNext]_vars

InitServiceApply == FileIdle /\ LinkIdle /\ AgentIdle /\ SvcIdle /\ AsmIdle /\ PkgIdle /\ StoreIdle /\ DirIdle /\ ApplyInit /\ PlanIdle

SpecServiceApply == InitServiceApply /\ [][ApplyNext]_vars

InitPackageApply == FileIdle /\ LinkIdle /\ AgentIdle /\ SvcIdle /\ AsmIdle /\ PkgIdle /\ StoreIdle /\ DirIdle /\ ApplyIdle /\ PlanInit

SpecPackageApply == InitPackageApply /\ [][PlanNext]_vars

(***************************************************************************)
(* C1: idempotence of the File reconciler. Once create_resource or         *)
(* update_resource has returned without error and nothing else touched     *)
(* the path, the next read_resource reports hash, permissions, owner and   *)
(* group equal to the desired ones: the change-set is empty, no handler    *)
(* is dispatched, no _io call is issued and the path is left as it is.     *)
(***************************************************************************)
C1_SecondReadEqualsDesired ==
    (fPc = "read" /\ fConverged) =>
        /\ fCur.st = "present"
        /\ fCur.hash = fDesired.hash
        /\ fCur.permissions = fDesired.permissions
        /\ fCur.owner = fDesired.owner
        /\ fCur.group = fDesired.group
        /\ FileChanges(fCur, fDesired) = {}

C1_SecondPassDoesNothing ==
    (fPc = "read" /\ fConverged /\ fPc' = "done") =>
        (fNode' = fNode /\ fLog' = <<>> /\ fOp' = "none" /\ fOutcome' = "none")

C1_Idempotent == []C1_SecondReadEqualsDesired /\ [][C1_SecondPassDoesNothing]_vars

\* a second pass that ended with nothing to do, after an apply that had to
\* change mode and ownership
C1_Witness ==
    /\ fPc = "done" /\ fConverged /\ fOp = "none" /\ fCur.st = "present"
    /\ fDesired.permissions = 755 /\ fDesired.owner = "app" /\ fDesired.group = "staff"

(***************************************************************************)
(* C5: integrity check of the File reconciler. When create_resource, or    *)
(* update_resource with hash in the change-set, fetches bytes that do not  *)
(* hash to the desired hash, the call fails before any put, chmod or       *)
(* chown: the path keeps its existence, content, mode and ownership and    *)
(* no outcome is recorded. Every put of a pass wrote bytes that hash to    *)
(* the desired hash.                                                       *)
(***************************************************************************)
FetchMismatch ==
    /\ store[fDesired.hash] # NoObj
    /\ hash_file(store[fDesired.hash]) # fDesired.hash

C5_FailsBeforeAnyWrite ==
    (/\ fPc = "read" /\ fPc' = "done" /\ FetchMismatch
     /\ \/ fOp' = "create" /\ ~file_exists(fNode)
        \/ fOp' = "update" /\ file_exists(fNode) /\ "hash" \in FileChanges(fCur, fDesired))
    => (fErr' = "integrity" /\ fNode' = fNode /\ fLog' = <<>> /\ fOutcome' = "none")

C5_WrittenBytesVerified ==
    \A i \in 1..Len(fLog) :
        fLog[i].call = "put" => hash_file(fLog[i].arg) = fDesired.hash

C5_Integrity == []C5_WrittenBytesVerified /\ [][C5_FailsBeforeAnyWrite]_vars

C5_Witness ==
    /\ fPc = "done" /\ fErr = "integrity" /\ fOp = "update"
    /\ file_exists(fNode) /\ FetchMismatch


(***************************************************************************)
(* C2: AgentConfig lost update. A write stores the writer's own copy of    *)
(* the map whole, so after every write the remote map is exactly the last  *)
(* writer's copy (last write wins) and no reconciliation records an        *)
(* error; C2_Witness is the interleaving in which the entry one            *)
(* reconciliation created is gone after the other one's stale write.       *)
(***************************************************************************)
C2_LastWriteWins ==
    /\ \A a \in Agents : aErr[a] = "none"
    /\ \A a \in Agents : aLast = a => remote = aCtx[a]
    /\ \A a \in Agents : \A b \in Agents \ {a} :
          (aLast = a /\ aStale[a] /\ aPc[a] = "done") =>
              Entry(remote, b) = Entry(aCtx[a], b)

C2_Witness ==
    \E a \in Agents : \E b \in Agents \ {a} :
        /\ aLast = a /\ aStale[a] /\ aPc[a] = "done" /\ aErr[a] = "none"
        /\ aPc[b] = "done" /\ aOp[b] = "create" /\ aErr[b] = "none"
        /\ Entry(remote, b) = NoEntry

(***************************************************************************)
(* C3: AgentConfig frame property. A create, update or delete for agent    *)
(* name A that nobody else's write came between (read to write-back)       *)
(* changes the remote map at key A only: every other key keeps its URI     *)
(* and no other key is added or removed; key A ends as desired.            *)
(***************************************************************************)
C3_FrameStep ==
    \A a \in Agents :
        (aPc[a] = "read" /\ aPc'[a] = "done" /\ ~aDirty[a]) =>
            /\ \A k \in MapKeys \ {a} : Entry(remote', k) = Entry(remote, k)
            /\ aOp'[a] \in {"create", "update"} => Entry(remote', a) = aDesired[a].uri
            /\ aOp'[a] = "delete" => Entry(remote', a) = NoEntry

C3_Frame == [][C3_FrameStep]_vars

C3_Witness ==
    \E a \in Agents : \E b \in MapKeys \ {a} :
        /\ aPc[a] = "done" /\ aOp[a] = "update" /\ aLast = a /\ ~aStale[a]
        /\ Entry(remote, a) = aDesired[a].uri
        /\ Entry(remote, b) # NoEntry

(***************************************************************************)
(* C4: Symlink conflict. When the target path exists and is not a symlink, *)
(* read_resource ends the pass with a hard error: it reports neither       *)
(* Purged nor a source, no handler is dispatched, no remove and no symlink *)
(* call is issued, and the step leaves the file at the target as it is.    *)
(***************************************************************************)
C4_ConflictEndsPass ==
    lErr = "conflict" =>
        /\ lPc = "done"
        /\ lCur = Unread
        /\ lOp = "none"
        /\ lLog = <<>>
        /\ lOutcome = "none"

C4_ReadOfNonSymlink ==
    (lPc = "start" /\ lPc' # "start" /\ file_exists(lNode) /\ ~is_symlink(lNode)) =>
        (lErr' = "conflict" /\ lPc' = "done" /\ lNode' = lNode)

C4_SymlinkConflict == []C4_ConflictEndsPass /\ [][C4_ReadOfNonSymlink]_vars

C4_Witness == lPc = "done" /\ lErr = "conflict" /\ lNode.kind = "file"

(***************************************************************************)
(* C10: CRUD outcome reporting. For the File, Symlink and AgentConfig      *)
(* reconcilers: a create_resource that returned without error recorded     *)
(* created, an update_resource that returned without error recorded        *)
(* updated, a delete_resource that removed the entity recorded purged, and *)
(* a call that failed recorded nothing.                                    *)
(***************************************************************************)
OutcomeReported(pc, op, err, outcome, removed) ==
    pc = "done" =>
        /\ (op = "create" /\ err = "none") => outcome = "created"
        /\ (op = "update" /\ err = "none") => outcome = "updated"
        /\ (op = "delete" /\ err = "none" /\ removed) => outcome = "purged"
        /\ err # "none" => outcome = "none"

Removed(log) == \E i \in 1..Len(log) : log[i].call = "remove"

C10_OutcomeReported ==
    /\ OutcomeReported(fPc, fOp, fErr, fOutcome, Removed(fLog))
    /\ OutcomeReported(lPc, lOp, lErr, lOutcome, Removed(lLog))
    /\ \A a \in Agents :
          OutcomeReported(aPc[a], aOp[a], aErr[a], aOutcome[a], aOp[a] = "delete")

(***************************************************************************)
(* C6: Service reconciler exclusivity. For every set of binaries present   *)
(* on the host, of the two probes made against that host at most one       *)
(* reports available, and with a systemctl binary present the systemd      *)
(* reconciler is the one. Stated for a _systemd_path that is not stale.    *)
(***************************************************************************)
SystemctlPresent ==
    bin_exists(bins, "/usr/bin/systemctl") \/ bin_exists(bins, "/bin/systemctl")

C6_Exclusive ==
    (sysFresh /\ svcFresh /\ (sysPath = None \/ sysPath \in bins)) =>
        /\ ~(sysAvail = "yes" /\ svcAvail = "yes")
        /\ SystemctlPresent => (sysAvail = "yes" /\ svcAvail = "no")

(***************************************************************************)
(* C7: Content Assembler determinism. generate_content joins the values    *)
(* in ascending order of (sorting key, value), a fragment without a key    *)
(* sorting under its value and equal keys by value, so the output for a    *)
(* fragment set is the same in whatever order the fragments are supplied.  *)
(***************************************************************************)
PairLess(x, y) == StrLess(x[1], y[1]) \/ (x[1] = y[1] /\ StrLess(x[2], y[2]))

RECURSIVE InsertByPair(_, _)
InsertByPair(sorted, tup) ==
    IF Len(sorted) = 0 THEN <<tup>>
    ELSE IF PairLess(tup, sorted[1]) THEN <<tup>> \o sorted
    ELSE <<sorted[1]>> \o InsertByPair(Tail(sorted), tup)

RECURSIVE SortByPair(_)
SortByPair(list) ==
    IF Len(list) = 0 THEN <<>>
    ELSE InsertByPair(SortByPair(SubSeq(list, 1, Len(list) - 1)), list[Len(list)])

OrderedByKeyAndValue(content_list, seperator) ==
    LET sorted == SortByPair([i \in 1..Len(content_list) |-> SortTuple(content_list[i])])
    IN  Join([i \in 1..Len(sorted) |-> sorted[i][2]], seperator) \o seperator

C7_Deterministic ==
    asmOut # NotRun =>
        /\ asmOut.text = OrderedByKeyAndValue(asmList, asmSep)
        /\ asmOut = asmRef

(***************************************************************************)
(* C8: Package available-update parsing. When check_resource reaches the   *)
(* check-update output and its first line has at least three columns and   *)
(* no security banner, update is the second column split on its first      *)
(* dash only (text before it, everything after it), also when the release  *)
(* part holds a dash itself; without three columns, or with the banner,    *)
(* update is null.                                                         *)
(***************************************************************************)
ReachesUpdate ==
    /\ pkFields.exc = "none"
    /\ {"Repo", "Version", "Release"} \subseteq DOMAIN pkFields.ret

VersionColumn == Columns(pkUpd)[2]

FirstDash == Min(Positions(VersionColumn, "-"))

C8_SplitOnFirstDash ==
    (pkPc = "done" /\ ReachesUpdate) =>
        IF Len(Columns(pkUpd)) >= 3 /\ ~StartsWith(pkUpd, "Security:")
        THEN Positions(VersionColumn, "-") # {} =>
                /\ pkData.exc = "none"
                /\ pkData.ret.update =
                       <<SubSeq(VersionColumn, 1, FirstDash - 1),
                         SubSeq(VersionColumn, FirstDash + 1, Len(VersionColumn))>>
        ELSE pkData.exc = "none" /\ pkData.ret.update = NoUpdate

(***************************************************************************)
(* C9: Package info parsing. For every sequence of info lines              *)
(* _parse_fields returns a field map: a new field for each line with a     *)
(* non-empty key, the value of an empty-key line appended to the most      *)
(* recent field with one space, blank lines skipped, nothing read at or    *)
(* after the "Available Packages" line; also when the first key/value      *)
(* line has an empty key.                                                  *)
(***************************************************************************)
\* the parse the sentence describes: an empty-key line with no field before it adds nothing
RECURSIVE ParseFieldsLenient(_, _, _)
ParseFieldsLenient(lines, props, old_key) ==
    IF Len(lines) = 0 THEN Return(props)
    ELSE LET line == Head(lines)
         IN  IF Strip(line) = "" THEN ParseFieldsLenient(Tail(lines), props, old_key)
             ELSE IF Strip(line) = "Available Packages" THEN Return(props)
             ELSE IF ~FieldMatches(line) THEN ParseFieldsLenient(Tail(lines), props, old_key)
             ELSE LET key   == Strip(FieldKey(line))
                      value == FieldValue(line)
                  IN  IF key = ""
                      THEN IF old_key \notin DOMAIN props
                           THEN ParseFieldsLenient(Tail(lines), props, old_key)
                           ELSE ParseFieldsLenient(Tail(lines),
                                    [props EXCEPT ![old_key] = @ \o " " \o value], old_key)
                      ELSE ParseFieldsLenient(Tail(lines), dict_set(props, key, value), key)

C9_ParseFieldsTotal ==
    pkPc = "done" =>
        /\ pkFields.exc = "none"
        /\ pkFields.ret = ParseFieldsLenient(Tail(pkInfo), EmptyDict, None).ret

(***************************************************************************)
(* C11: Prefix layout. For a file with at least one prefix fragment the    *)
(* bytes store_file assembles are the sorted prefix fragments joined by    *)
(* the separator, then exactly one separator, then the payload (then the   *)
(* suffix part, if any): one separator occurrence stands between the last  *)
(* prefix fragment and the first byte of the payload.                      *)
(***************************************************************************)
SortedValues(content_list) ==
    LET sorted == SortByKey([i \in 1..Len(content_list) |-> SortTuple(content_list[i])])
    IN  [i \in 1..Len(sorted) |-> sorted[i][2]]

SuffixPart(obj) ==
    IF Len(obj.suffix_content) > 0
    THEN obj.content_seperator
             \o Join(SortedValues(obj.suffix_content), obj.content_seperator)
             \o obj.content_seperator
    ELSE ""

C11_PrefixLayout ==
    (sfOut.ran /\ ~sfOut.unknown /\ Len(sfObj.prefix_content) > 0) =>
        sfOut.bytes = Join(SortedValues(sfObj.prefix_content), sfObj.content_seperator)
                          \o sfObj.content_seperator
                          \o sfObj.content.data
                          \o SuffixPart(sfObj)

(***************************************************************************)
(* C12: File existence preconditions. create_resource on a path that       *)
(* exists fails and leaves the path's content, mode and ownership and the  *)
(* content store as they were, with no filesystem call; update_resource    *)
(* on a path that does not exist fails and creates nothing; neither        *)
(* failing call records an outcome.                                        *)
(***************************************************************************)
FileHandlerStep(op) == fPc = "read" /\ fPc' = "done" /\ fOp' = op

FailsUntouched ==
    /\ fErr' # "none"
    /\ fNode' = fNode
    /\ store' = store
    /\ fLog' = <<>>
    /\ fOutcome' = "none"

C12_PreconditionStep ==
    /\ (FileHandlerStep("create") /\ file_exists(fNode)) => (FailsUntouched /\ fErr' = "exists")
    /\ (FileHandlerStep("update") /\ ~file_exists(fNode)) => (FailsUntouched /\ fErr' = "missing")

C12_ExistencePreconditions == [][C12_PreconditionStep]_vars

C12_Witness ==
    /\ fPc = "done"
    /\ fOp = "create"
    /\ fErr = "exists"
    /\ fOutcome = "none"
    /\ file_exists(fNode)
    /\ fQuiet = FALSE

C12_WitnessUpdate ==
    /\ fPc = "done"
    /\ fOp = "update"
    /\ fErr = "missing"
    /\ fNode = Absent

(***************************************************************************)
(* C13: Delete of an absent resource is a no-op. For the File and the      *)
(* Directory reconciler, delete_resource on a path that does not exist     *)
(* issues no remove or rmdir call, raises no error and records no purged   *)
(* outcome; on a path that exists (a directory being empty) it removes it  *)
(* and records purged.                                                     *)
(***************************************************************************)
DirHandlerStep(op) == dPc = "read" /\ dPc' = "done" /\ dOp' = op

C13_FileDeleteStep ==
    FileHandlerStep("delete") =>
        IF file_exists(fNode)
        THEN fNode' = Absent /\ fErr' = "none" /\ fOutcome' = "purged"
        ELSE fNode' = fNode /\ fLog' = <<>> /\ fErr' = "none" /\ fOutcome' = "none"

C13_DirDeleteStep ==
    DirHandlerStep("delete") =>
        IF file_exists(dNode)
        THEN dNode.empty => (dNode' = Absent /\ dErr' = "none" /\ dOutcome' = "purged")
        ELSE dNode' = dNode /\ dLog' = <<>> /\ dErr' = "none" /\ dOutcome' = "none"

C13_DeleteAbsentNoOp == [][C13_FileDeleteStep /\ C13_DirDeleteStep]_vars

\* the File half alone
C13_FileDeleteNoOp == [][C13_FileDeleteStep]_vars

(***************************************************************************)
(* C14: File update applies only the changed facets. In every call of      *)
(* update_resource a facet whose attribute is not in the change-set gets   *)
(* no filesystem call and keeps its value, and the calls made run in the   *)
(* order content, chmod, chown; in every call that returns without error   *)
(* the content is rewritten iff hash is in the change-set, chmod is called *)
(* iff permissions is, and chown is called iff owner or group is.          *)
(***************************************************************************)
HasCall(log, name) == \E i \in 1..Len(log) : log[i].call = name

FacetRank(name) == IF name = "put" THEN 1 ELSE IF name = "chmod" THEN 2 ELSE 3

InFacetOrder(log) ==
    /\ \A i \in 1..Len(log) : log[i].call \in {"put", "chmod", "chown"}
    /\ \A i, j \in 1..Len(log) : i < j => FacetRank(log[i].call) < FacetRank(log[j].call)

ChangeSet == FileChanges(fCur, fDesired)

OwnershipChanged == "owner" \in ChangeSet \/ "group" \in ChangeSet

C14_OnlyChanged ==
    /\ HasCall(fLog', "put") => "hash" \in ChangeSet
    /\ HasCall(fLog', "chmod") => "permissions" \in ChangeSet
    /\ HasCall(fLog', "chown") => OwnershipChanged
    /\ InFacetOrder(fLog')
    /\ file_exists(fNode) =>
          /\ file_exists(fNode')
          /\ "hash" \notin ChangeSet => fNode'.data = fNode.data
          /\ "permissions" \notin ChangeSet => fNode'.mode = fNode.mode
          /\ ~OwnershipChanged => (fNode'.owner = fNode.owner /\ fNode'.group = fNode.group)

C14_AllChanged ==
    /\ "hash" \in ChangeSet => HasCall(fLog', "put")
    /\ "permissions" \in ChangeSet => HasCall(fLog', "chmod")
    /\ OwnershipChanged => HasCall(fLog', "chown")

C14_ChangedFacets ==
    [][FileHandlerStep("update") =>
          (C14_OnlyChanged /\ (fErr' = "none" => C14_AllChanged))]_vars

\* the same without the restriction to calls that return without error
C14_ChangedFacetsAlways ==
    [][FileHandlerStep("update") => (C14_OnlyChanged /\ C14_AllChanged)]_vars

C14_Witness ==
    /\ fPc = "done"
    /\ fOp = "update"
    /\ fErr = "none"
    /\ ChangeSet = {"hash", "group"}
    /\ Len(fLog) = 2
    /\ fLog[1].call = "put"
    /\ fLog[2].call = "chown"

(***************************************************************************)
(* C15: Service command failure is a hard error. In do_changes of both     *)
(* Service reconcilers, a start/stop or enable/disable (chkconfig on/off)  *)
(* command that exits with a non-zero code, or whose error output begins   *)
(* with the failure marker, makes the call fail: the attempt does not      *)
(* report updated, and no command is run twice.                            *)
(***************************************************************************)
\* the changes whose command the call ran
Executed ==
    {k \in saChanges.keys :
        k = "state" \/ ~("state" \in saChanges.keys /\ FailedMarker(saResults["state"]))}

CommandFailed(k) == saResults[k].code # 0 \/ FailedMarker(saResults[k])

C15_CommandFailureIsError ==
    saOut.called =>
        /\ (\E k \in Executed : CommandFailed(k)) =>
               (saOut.err # "none" /\ saOut.outcome # "updated")
        /\ \A i, j \in 1..Len(saOut.log) : i # j => saOut.log[i] # saOut.log[j]

(***************************************************************************)
(* C16: Service apply reports updated if anything changed. In do_changes   *)
(* of both Service reconcilers, whenever a start/stop or enable/disable    *)
(* command of the call was executed and did not fail, updated is recorded  *)
(* for the attempt, also when the second command fails after the first     *)
(* succeeded; with neither state nor onboot in the change-set no command   *)
(* is run and no outcome is recorded.                                      *)
(***************************************************************************)
C16_UpdatedIfAnythingChanged ==
    saOut.called =>
        /\ (\E k \in Executed : ~CommandFailed(k)) => saOut.outcome = "updated"
        /\ saChanges.keys = {} => (saOut.log = <<>> /\ saOut.outcome = "none")

(***************************************************************************)
(* C17: Package change-set rules. For every desired state in {removed,     *)
(* installed, latest} and every snapshot check_resource returned,          *)
(* list_changes holds a state change to removed iff desired is removed and *)
(* the actual state is not removed; a state change to installed iff        *)
(* desired is installed or latest and the actual state is not installed; a *)
(* version change iff desired is latest and the snapshot's available       *)
(* update is non-null; and nothing else, so it is empty exactly when the   *)
(* package is converged.                                                   *)
(***************************************************************************)
Snapshot == plState.ret

AvailableUpdate == IF "update" \in DOMAIN Snapshot THEN Snapshot.update ELSE NoUpdate

StateChangeTo(target) ==
    "state" \in DOMAIN plChanges /\ plChanges["state"] = <<Snapshot.state, target>>

PackageConverged ==
    /\ plDesired = "removed" => Snapshot.state = "removed"
    /\ plDesired \in {"installed", "latest"} => Snapshot.state = "installed"
    /\ plDesired = "latest" => AvailableUpdate = NoUpdate

C17_ChangeSetRules ==
    (plPc \in {"listed", "done"} /\ plState.exc = "none") =>
        /\ DOMAIN plChanges \subseteq {"state", "version"}
        /\ StateChangeTo("removed") <=>
               (plDesired = "removed" /\ Snapshot.state # "removed")
        /\ StateChangeTo("installed") <=>
               (plDesired \in {"installed", "latest"} /\ Snapshot.state # "installed")
        /\ "state" \in DOMAIN plChanges =>
               (StateChangeTo("removed") \/ StateChangeTo("installed"))
        /\ "version" \in DOMAIN plChanges <=>
               (plDesired = "latest" /\ AvailableUpdate # NoUpdate)
        /\ "version" \in DOMAIN plChanges =>
               plChanges["version"] = <<<<Snapshot.version, Snapshot.release>>, Snapshot.update>>
        /\ DOMAIN plChanges = {} <=> PackageConverged

C17_Witness ==
    /\ plPc = "listed"
    /\ plState.exc = "none"
    /\ plDesired = "latest"
    /\ Snapshot.state = "removed"
    /\ AvailableUpdate # NoUpdate
    /\ DOMAIN plChanges = {"state", "version"}

(***************************************************************************)
(* C18: Package apply. do_changes with a state change to removed runs only *)
(* the remove command and records purged; with a state change to           *)
(* installed it runs install and then update and records created; with a   *)
(* version change and no state change it runs only update and records      *)
(* updated; if a package-tool command exits non-zero the call fails at     *)
(* that command, runs no later command and records no outcome.             *)
(***************************************************************************)
\* the commands and the outcome of a call in which no command fails
PlannedCommands ==
    IF "state" \in DOMAIN plChanges
    THEN IF plChanges["state"][2] = "removed" THEN <<"remove">> ELSE <<"install", "update">>
    ELSE <<"update">>

PlannedOutcome ==
    IF "state" \in DOMAIN plChanges
    THEN IF plChanges["state"][2] = "removed" THEN "purged" ELSE "created"
    ELSE "updated"

\* the planned commands that exit non-zero
FailingCommands == {n \in 1..Len(PlannedCommands) : plCodes'[PlannedCommands[n]] # 0}

C18_ApplyStep ==
    (plPc = "listed" /\ plPc' = "done" /\ DOMAIN plChanges # {}) =>
        IF FailingCommands = {}
        THEN /\ plOut'.err = "none"
             /\ plOut'.log = PlannedCommands
             /\ plOut'.outcome = PlannedOutcome
        ELSE /\ plOut'.err # "none"
             /\ plOut'.outcome = "none"
             /\ plOut'.log = SubSeq(PlannedCommands, 1, Min(FailingCommands))

C18_Apply == [][C18_ApplyStep]_vars

C18_Witness ==
    /\ plPc = "done"
    /\ "state" \in DOMAIN plChanges
    /\ plChanges["state"][2] = "installed"
    /\ plOut.log = <<"install", "update">>
    /\ plCodes["install"] = 0
    /\ plCodes["update"] # 0
    /\ plOut.err # "none"
    /\ plOut.outcome = "none"

(***************************************************************************)
(* C19: The availability probe is side-effect-free. For every sequence of  *)
(* probes of one SystemdService instance interleaved with host changes,    *)
(* each call of available returns true iff /usr/bin/systemctl or           *)
(* /bin/systemctl exists on the host at the time of that call, whatever    *)
(* the earlier probes returned.                                            *)
(***************************************************************************)
C19_ProbeReflectsHost ==
    sysFresh => (sysAvail = "yes" <=> SystemctlPresent)

(***************************************************************************)
(* C20: Content-store consistency of the File backup upload.               *)
(* read_resource uploads only when the content store has no object for    *)
(* the file's hash, and every object it uploads under hash h consists of   *)
(* bytes whose hash is h, also when another process rewrites the file      *)
(* between the hashing of the path and the reading of its bytes.           *)
(***************************************************************************)
C20_UploadStep ==
    \A h \in Hashes :
        store'[h] # store[h] =>
            /\ store[h] = NoObj
            /\ h = fCur.hash
            /\ hash_file(store'[h]) = h

C20_BackupConsistent == [][C20_UploadStep]_vars
====
